---- MODULE Spec2Model ----
(***************************************************************************)
(* Model of app.py (EMEA FD2W): the pivot-to-aggregate volume pipeline     *)
(* load_and_process_data, the Nominatim geocoding loop geocode_locations   *)
(* and the volume/location join that feeds the map.                        *)
(*                                                                         *)
(* Text is modelled as a sequence of one-character strings so that         *)
(* substring and case tests are computed rather than assumed.              *)
(***************************************************************************)
EXTENDS Integers, Sequences, FiniteSets

VARIABLES
    pc,            \* position of the run inside the modelled function
    grid,          \* raw sheet rows of the pivot workbook (0-indexed row i is grid[i+1])
    plan,          \* what read_excel(skiprows=8, header=[0,1]) resolved
    df_pivot,      \* the pivot's cells, one record per (market row, data column)
    df_long,       \* the long table as load_and_process_data rewrites it
    df_data,       \* the aggregated volume table returned by load_and_process_data
    df_locations_raw, \* the location table load_locations_data returned
    df_loc,        \* the df_loc of geocode_locations: its argument, then the head
    max_locations, \* the cap argument of geocode_locations (0 stands for None / 0)
    idx,           \* number of loop iterations of geocode_locations completed
    latitudes,     \* the latitudes list of geocode_locations
    longitudes,    \* the longitudes list of geocode_locations
    log,           \* outbound requests and sleeps, in the order they happened
    df_locations,  \* the table geocode_locations returned
    df_map_data,   \* the volumes grouped by Location and Wh_Role for the map
    df_map         \* the map-ready table

vars == <<pc, grid, plan, df_pivot, df_long, df_data, df_locations_raw, df_loc,
          max_locations, idx, latitudes, longitudes, log, df_locations,
          df_map_data, df_map>>

volVars == <<df_pivot, df_long, df_data>>
hdrVars == <<grid, plan>>
geoVars == <<df_locations_raw, df_loc, max_locations, idx, latitudes, longitudes, log>>
mapVars == <<df_locations, df_map_data, df_map>>

(***************************************************************************)
(* Bounds of the model.                                                    *)
(***************************************************************************)
MaxRows == 2        \* rows of the long table drawn as input
MaxPreamble == 9    \* rows above the header rows of the pivot sheet
MaxDataRows == 2    \* market rows of the pivot sheet
MaxEntries == 2     \* rows of the location table
MaxAggRows == 2     \* rows of the aggregated table drawn as input of the join

(***************************************************************************)
(* Text helpers.                                                           *)
(***************************************************************************)
Upper == <<"A", "B", "C", "D", "E", "F", "G", "H", "I", "J", "K", "L", "M",
           "N", "O", "P", "Q", "R", "S", "T", "U", "V", "W", "X", "Y", "Z">>
Lower == <<"a", "b", "c", "d", "e", "f", "g", "h", "i", "j", "k", "l", "m",
           "n", "o", "p", "q", "r", "s", "t", "u", "v", "w", "x", "y", "z">>

\* str.lower() of one character
LowerChar(c) ==
    IF \E i \in 1..26 : Upper[i] = c
    THEN Lower[CHOOSE i \in 1..26 : Upper[i] = c]
    ELSE c

\* str.lower()
ToLower(s) == [i \in 1..Len(s) |-> LowerChar(s[i])]

\* Python's  sub in s
Contains(s, sub) ==
    \E i \in 0..(Len(s) - Len(sub)) :
        \A j \in 1..Len(sub) : s[i + j] = sub[j]

\* case-insensitive substring test
ContainsCI(s, sub) == Contains(ToLower(s), ToLower(sub))

\* str.strip() restricted to blanks
RECURSIVE LStrip(_)
LStrip(s) == IF s # <<>> /\ Head(s) = " " THEN LStrip(Tail(s)) ELSE s
RECURSIVE RStrip(_)
RStrip(s) ==
    IF s # <<>> /\ s[Len(s)] = " " THEN RStrip(SubSeq(s, 1, Len(s) - 1)) ELSE s
Strip(s) == LStrip(RStrip(s))

(***************************************************************************)
(* Texts that occur in the workbook and in the code. A text is held as a   *)
(* string where the code only compares it for equality (a dict lookup, a   *)
(* group or join key); Chars gives its characters where something looks    *)
(* inside it.                                                              *)
(***************************************************************************)
Chars(s) ==
    CASE s = "Forecast at LDC" ->
           <<"F", "o", "r", "e", "c", "a", "s", "t", " ", "a", "t", " ", "L", "D", "C">>
      [] s = "Forecast at LDC (area split)" ->
           <<"F", "o", "r", "e", "c", "a", "s", "t", " ", "a", "t", " ", "L", "D", "C", " ", "(", "a", "r", "e", "a", " ", "s", "p", "l", "i", "t", ")">>
      [] s = "Forecast at RDC" ->
           <<"F", "o", "r", "e", "c", "a", "s", "t", " ", "a", "t", " ", "R", "D", "C">>
      [] s = "Forecast at Factory Warehouse" ->
           <<"F", "o", "r", "e", "c", "a", "s", "t", " ", "a", "t", " ", "F", "a", "c", "t", "o", "r", "y", " ", "W", "a", "r", "e", "h", "o", "u", "s", "e">>
      [] s = "Factory Warehouse Plan" ->
           <<"F", "a", "c", "t", "o", "r", "y", " ", "W", "a", "r", "e", "h", "o", "u", "s", "e", " ", "P", "l", "a", "n">>
      [] s = "forecast at ldc" ->
           <<"f", "o", "r", "e", "c", "a", "s", "t", " ", "a", "t", " ", "l", "d", "c">>
      [] s = "Budget Notes" ->
           <<"B", "u", "d", "g", "e", "t", " ", "N", "o", "t", "e", "s">>
      [] s = "FR" ->
           <<"F", "R">>
      [] s = "EMEA Total" ->
           <<"E", "M", "E", "A", " ", "T", "o", "t", "a", "l">>
      [] s = "EMEA FD2W V1" ->
           <<"E", "M", "E", "A", " ", "F", "D", "2", "W", " ", "V", "1">>
      [] s = "Market" ->
           <<"M", "a", "r", "k", "e", "t">>
      [] s = "Loc1" ->
           <<"L", "o", "c", "1">>
      [] s = "Loc2" ->
           <<"L", "o", "c", "2">>
      [] s = "ldc" ->
           <<"l", "d", "c">>
      [] s = "rdc" ->
           <<"r", "d", "c">>
      [] s = "factory" ->
           <<"f", "a", "c", "t", "o", "r", "y">>
      [] s = "fw" ->
           <<"f", "w">>
      [] s = "total" ->
           <<"t", "o", "t", "a", "l">>
      [] s = "nan" ->
           <<"n", "a", "n">>
      [] s = "forecast" ->
           <<"f", "o", "r", "e", "c", "a", "s", "t">>
      [] s = "AE01" ->
           <<"A", "E", "0", "1">>
      [] s = "AE01 " ->
           <<"A", "E", "0", "1", " ">>
      [] s = "FR02" ->
           <<"F", "R", "0", "2">>
      [] s = "25" ->
           <<"2", "5">>
      [] s = "55" ->
           <<"5", "5">>
      [] s = "48" ->
           <<"4", "8">>
      [] s = "abc" ->
           <<"a", "b", "c">>
      [] s = "XX99" ->
           <<"X", "X", "9", "9">>
      [] OTHER -> <<>>

\* pandas' missing value for a text cell: read_excel turns an empty cell (and
\* the texts in its default na_values, "" and "nan" among them) into NaN
NA == ""

\* the missing role that Series.map leaves for a label the dict does not hold
NaRole == "NaN"

Roles == {"LDCs", "RDCs", "FWs"}

(***************************************************************************)
(* load_and_process_data, lines 63-91: the long table and its aggregation. *)
(***************************************************************************)

\* A cell of the pivot: a number, an empty cell (NaN) or a text such as "-".
NumCell(v) == [k |-> "num", v |-> v]
NanCell == [k |-> "nan", v |-> 0]
TextCell == [k |-> "text", v |-> 0]

\* the input alphabets, as tuples so that a table can be drawn in one order
MarketsSeq == <<"FR", "EMEA Total", NA>>
LabelsSeq == <<"Forecast at LDC", "Forecast at LDC (area split)", "Forecast at RDC",
               "Forecast at Factory Warehouse", "Factory Warehouse Plan">>
LocationsSeq == <<"Loc1", "Loc2">>
CellsSeq == <<NanCell, TextCell, NumCell(0), NumCell(1), NumCell(2)>>

NumRecords == Len(MarketsSeq) * Len(LabelsSeq) * Len(LocationsSeq) * Len(CellsSeq)

\* the i-th record of the input alphabet, 0 <= i < NumRecords
PivotRecord(i) ==
    LET a == i % Len(CellsSeq)
        i1 == i \div Len(CellsSeq)
        b == i1 % Len(LocationsSeq)
        i2 == i1 \div Len(LocationsSeq)
        c == i2 % Len(LabelsSeq)
        d == i2 \div Len(LabelsSeq)
    IN  [Market |-> MarketsSeq[d + 1], ForecastType |-> LabelsSeq[c + 1],
         Location |-> LocationsSeq[b + 1], Volume |-> CellsSeq[a + 1]]

\* whether the index tuple g is in the order of the input alphabet
Ordered(g) == \A i \in 1..(Len(g) - 1) : g[i] <= g[i + 1]

\* the table whose i-th row is record g[i] of the input alphabet
PivotTable(g) == [i \in 1..Len(g) |-> PivotRecord(g[i])]

\* pd.to_numeric(..., errors='coerce') on one cell
ToNumericCell(c) == IF c.k = "num" THEN c ELSE NanCell

\* line 66
to_numeric(t) == [i \in 1..Len(t) |-> [t[i] EXCEPT !.Volume = ToNumericCell(@)]]

VolumeNotNa(r) == r.Volume.k # "nan"
\* line 72; the rows left hold plain numbers
dropna_Volume(t) ==
    LET kept == SelectSeq(t, VolumeNotNa)
    IN  [i \in 1..Len(kept) |-> [kept[i] EXCEPT !.Volume = @.v]]

VolumePositive(r) == r.Volume > 0
\* line 73
filter_Volume(t) == SelectSeq(t, VolumePositive)

\* lines 79-84: the dict; Series.map looks the label up by equality
role_mapping(label) ==
    CASE label = "Forecast at LDC" -> "LDCs"
      [] label = "Forecast at LDC (area split)" -> "LDCs"
      [] label = "Forecast at RDC" -> "RDCs"
      [] label = "Forecast at Factory Warehouse" -> "FWs"
      [] OTHER -> NaRole

\* line 85
map_role(t) ==
    [i \in 1..Len(t) |->
        [Market |-> t[i].Market, ForecastType |-> t[i].ForecastType,
         Location |-> t[i].Location, Volume |-> t[i].Volume,
         Wh_Role |-> role_mapping(t[i].ForecastType)]]

RoleNotNa(r) == r.Wh_Role # NaRole
\* line 88
dropna_Wh_Role(t) == SelectSeq(t, RoleNotNa)

\* the group key of a row
GroupKey(r) == <<r.Market, r.Wh_Role, r.Location>>

\* Series.sum() of the Volume of the rows of t whose key is k
RECURSIVE SumVolume(_, _)
SumVolume(t, k) ==
    IF t = <<>> THEN 0
    ELSE (IF GroupKey(Head(t)) = k THEN Head(t).Volume ELSE 0) + SumVolume(Tail(t), k)

\* a group-by that keeps a group's largest Volume instead of the sum
RECURSIVE MaxVolumeOf(_, _)
MaxVolumeOf(t, k) ==
    IF t = <<>> THEN 0
    ELSE LET rest == MaxVolumeOf(Tail(t), k)
             v == IF GroupKey(Head(t)) = k THEN Head(t).Volume ELSE 0
         IN  IF v > rest THEN v ELSE rest

groupby_max(t) ==
    LET keys == {GroupKey(t[i]) : i \in {j \in 1..Len(t) : t[j].Market # NA}}
    IN  {[Market |-> k[1], Wh_Role |-> k[2], Location |-> k[3],
          Volume |-> MaxVolumeOf(t, k)] : k \in keys}

\* line 91: groupby([...]) drops the rows with a missing key (dropna=True is
\* the default), gives one row per key, and sums Volume
groupby_sum(t) ==
    LET keys == {GroupKey(t[i]) : i \in {j \in 1..Len(t) : t[j].Market # NA}}
    IN  {[Market |-> k[1], Wh_Role |-> k[2], Location |-> k[3],
          Volume |-> SumVolume(t, k)] : k \in keys}

(***************************************************************************)
(* Values of the variables a specification does not use.                   *)
(***************************************************************************)
NoPlan == [status |-> "none", headerRows |-> <<>>, dataStartRow |-> 0, columns |-> <<>>]

IdleHeader == grid = <<>> /\ plan = NoPlan
IdleVolume == df_pivot = <<>> /\ df_long = <<>> /\ df_data = {}
IdleGeo ==
    /\ df_locations_raw = <<>> /\ df_loc = <<>> /\ max_locations = 0 /\ idx = 0
    /\ latitudes = <<>> /\ longitudes = <<>> /\ log = <<>>
IdleMap == df_locations = <<>> /\ df_map_data = {} /\ df_map = {}

(***************************************************************************)
(* The volume pipeline as steps of load_and_process_data.                  *)
(***************************************************************************)
InitVolume ==
    /\ pc = "v_start"
    \* Tables of at most MaxRows rows. No step of the pipeline looks at the order
    \* of the rows (filters, a column map and a group-by), so one order per bag
    \* of rows is drawn.
    /\ \E n \in 0..MaxRows :
          \E g \in [1..n -> 0..(NumRecords - 1)] :
             Ordered(g) /\ df_pivot = PivotTable(g)
    /\ df_long = <<>>
    /\ df_data = {}
    /\ IdleHeader /\ IdleGeo /\ IdleMap

\* lines 63-73: stack the pivot, coerce Volume, drop NaN and non-positive rows
CleanVolume ==
    /\ pc = "v_start"
    /\ df_long' = filter_Volume(dropna_Volume(to_numeric(df_pivot)))
    /\ pc' = "v_clean"
    /\ UNCHANGED <<df_pivot, df_data, hdrVars, geoVars, mapVars>>

\* lines 79-85: add the Wh_Role column
MapRole ==
    /\ pc = "v_clean"
    /\ df_long' = map_role(df_long)
    /\ pc' = "v_mapped"
    /\ UNCHANGED <<df_pivot, df_data, hdrVars, geoVars, mapVars>>

\* lines 88-95: drop the unmapped rows, group, sum and return
Aggregate ==
    /\ pc = "v_mapped"
    /\ df_long' = dropna_Wh_Role(df_long)
    /\ df_data' = groupby_sum(df_long')
    /\ pc' = "v_returned"
    /\ UNCHANGED <<df_pivot, hdrVars, geoVars, mapVars>>

NextVolume == CleanVolume \/ MapRole \/ Aggregate

SpecVolume == InitVolume /\ [][NextVolume]_vars

(***************************************************************************)
(* Claims about the volume pipeline (specification SpecVolume).            *)
(***************************************************************************)

\* the role the substring rules give a label: "ldc", else "rdc", else
\* "factory" or "fw", else Unknown
SubstringRole(label) ==
    IF ContainsCI(Chars(label), Chars("ldc")) THEN "LDCs"
    ELSE IF ContainsCI(Chars(label), Chars("rdc")) THEN "RDCs"
    ELSE IF \/ ContainsCI(Chars(label), Chars("factory"))
            \/ ContainsCI(Chars(label), Chars("fw")) THEN "FWs"
    ELSE "Unknown"

\* a missing role read as Unknown
RoleOrUnknown(r) == IF r = NaRole THEN "Unknown" ELSE r

\* C1: once the Wh_Role column is set, every row's role is the one the ordered
\* case-insensitive substring rules give its ForecastType label.
C1_RoleIsSubstringRule ==
    pc = "v_mapped" =>
        \A i \in 1..Len(df_long) :
            RoleOrUnknown(df_long[i].Wh_Role) = SubstringRole(df_long[i].ForecastType)

\* a Market the aggregation is said to exclude: blank after trimming, the
\* text "nan" in any case, or containing "Total" in any case
ExcludedMarket(m) ==
    \/ Strip(Chars(m)) = <<>>
    \/ ToLower(Strip(Chars(m))) = Chars("nan")
    \/ ContainsCI(Chars(m), Chars("total"))

\* C2: no row of the returned table has Volume <= 0, a role outside
\* {LDCs, RDCs, FWs} or an excluded Market such as "EMEA Total".
C2_NoExcludedRows ==
    pc = "v_returned" =>
        \A row \in df_data :
            /\ row.Volume > 0
            /\ row.Wh_Role \in Roles
            /\ ~ExcludedMarket(row.Market)

\* the input records that survive cleaning and classification
Survives(r) ==
    /\ r.Volume.k = "num"
    /\ r.Volume.v > 0
    /\ role_mapping(r.ForecastType) \in Roles
    /\ r.Market # NA

\* the input rows that collapse to the triple of row
Collapsing(row) ==
    {i \in 1..Len(df_pivot) :
        /\ Survives(df_pivot[i])
        /\ df_pivot[i].Market = row.Market
        /\ role_mapping(df_pivot[i].ForecastType) = row.Wh_Role
        /\ df_pivot[i].Location = row.Location}

\* the sum of the volumes of the input rows in S
RECURSIVE SumInput(_)
SumInput(S) ==
    IF S = {} THEN 0
    ELSE LET i == CHOOSE j \in S : TRUE
         IN  df_pivot[i].Volume.v + SumInput(S \ {i})

\* C3: the returned table has at most one row per (Market, Wh_Role, Location),
\* every surviving record is counted in a row, and a row's Volume is the sum of
\* the volumes of the surviving records that collapse to its triple.
C3_OneSummedRowPerTriple ==
    pc = "v_returned" =>
        /\ \A r1, r2 \in df_data :
               (r1.Market = r2.Market /\ r1.Wh_Role = r2.Wh_Role
                    /\ r1.Location = r2.Location) => r1 = r2
        /\ \A row \in df_data :
               Collapsing(row) # {} /\ row.Volume = SumInput(Collapsing(row))
        /\ \A i \in 1..Len(df_pivot) :
               Survives(df_pivot[i]) =>
                   \E row \in df_data : i \in Collapsing(row)

\* C3 witness: two records under the two LDC labels, same Market and Location,
\* were summed into one LDCs row.
C3_Witness ==
    /\ pc = "v_returned"
    /\ \E row \in df_data : \E i, j \in Collapsing(row) :
          /\ df_pivot[i].ForecastType = "Forecast at LDC"
          /\ df_pivot[j].ForecastType = "Forecast at LDC (area split)"
          /\ row.Wh_Role = "LDCs"
          /\ row.Volume = df_pivot[i].Volume.v + df_pivot[j].Volume.v

(***************************************************************************)
(* load_and_process_data, lines 44-52: reading the sheet.                  *)
(***************************************************************************)

\* the skiprows argument of read_excel
skiprows == 8

\* line 51: a blank top-level header cell (pandas names it "Unnamed: ...") is
\* made missing and takes the nearest label to its left
RECURSIVE ffill(_)
ffill(row) ==
    IF row = <<>> THEN <<>>
    ELSE LET init == ffill(SubSeq(row, 1, Len(row) - 1))
             last == row[Len(row)]
         IN  Append(init, IF last = NA /\ init # <<>> THEN init[Len(init)] ELSE last)

\* line 44 and lines 50-52: the first skiprows rows are skipped, the next two
\* are the header rows and the data starts below them; read_excel raises when
\* the sheet has no second header row. Row numbers are 0-based.
read_excel(g) ==
    IF Len(g) < skiprows + 2
    THEN [status |-> "error", headerRows |-> <<>>, dataStartRow |-> 0,
          columns |-> <<>>]
    ELSE LET level0 == ffill(g[skiprows + 1])
             level1 == g[skiprows + 2]
         IN  [status |-> "ok",
              headerRows |-> <<skiprows, skiprows + 1>>,
              dataStartRow |-> skiprows + 2,
              columns |-> [i \in 1..Len(level0) |-> <<level0[i], level1[i]>>]]

TitleRow == <<"EMEA FD2W V1", "", "", "">>
BlankRow == <<"", "", "", "">>
TopHeaderRow == <<"", "Forecast at LDC", "", "Forecast at RDC">>
LocationHeaderRow == <<"Market", "Loc1", "Loc2", "Loc1">>
MarketRow == <<"FR", "1", "0", "2">>

InitHeader ==
    /\ pc = "h_start"
    /\ \E p \in 0..MaxPreamble, d \in 0..MaxDataRows :
          \E pre \in [1..p -> {TitleRow, BlankRow}] :
             grid = pre \o <<TopHeaderRow, LocationHeaderRow>>
                        \o [i \in 1..d |-> MarketRow]
    /\ plan = NoPlan
    /\ IdleVolume /\ IdleGeo /\ IdleMap

\* lines 44-52
ReadExcel ==
    /\ pc = "h_start"
    /\ read_excel(grid).status = "ok"
    /\ plan' = read_excel(grid)
    /\ pc' = "h_resolved"
    /\ UNCHANGED <<grid, volVars, geoVars, mapVars>>

\* lines 96-98: the exception of read_excel is reported and the run stops
ReadExcelFails ==
    /\ pc = "h_start"
    /\ read_excel(grid).status = "error"
    /\ plan' = read_excel(grid)
    /\ pc' = "h_stopped"
    /\ UNCHANGED <<grid, volVars, geoVars, mapVars>>

NextHeader == ReadExcel \/ ReadExcelFails

SpecHeader == InitHeader /\ [][NextHeader]_vars

\* the text of a row, its cells joined
RECURSIVE RowText(_)
RowText(row) ==
    IF row = <<>> THEN <<>> ELSE Chars(Head(row)) \o <<" ">> \o RowText(Tail(row))

\* the 0-based rows of the sheet whose text holds the forecast keyword
KeywordRows(g) ==
    {k \in 0..(Len(g) - 1) : ContainsCI(RowText(g[k + 1]), Chars("forecast"))}

\* the first of them
FirstKeywordRow(g) ==
    CHOOSE k \in KeywordRows(g) : \A j \in KeywordRows(g) : k <= j

\* C9: when the sheet is read, with its first forecast-keyword row at index k,
\* the header rows are k and k+1 and the data starts at row k+2.
C9_DataStartsTwoBelowKeywordRow ==
    (pc = "h_resolved" /\ KeywordRows(grid) # {}) =>
        /\ plan.headerRows = <<FirstKeywordRow(grid), FirstKeywordRow(grid) + 1>>
        /\ plan.dataStartRow = FirstKeywordRow(grid) + 2

(***************************************************************************)
(* geocode_locations, lines 117-175.                                       *)
(***************************************************************************)

\* Python's None in a latitudes / longitudes list, and a float in it
None == [null |-> TRUE, v |-> 0]
Some(x) == [null |-> FALSE, v |-> x]

Digits == <<"0", "1", "2", "3", "4", "5", "6", "7", "8", "9">>
IsDigit(c) == \E d \in 1..10 : Digits[d] = c
DigitValue(c) == (CHOOSE d \in 1..10 : Digits[d] = c) - 1

\* whether float(s) succeeds, for the texts of whole numbers
IsNumeric(s) == Chars(s) # <<>> /\ \A i \in 1..Len(Chars(s)) : IsDigit(Chars(s)[i])

RECURSIVE DigitsValue(_)
DigitsValue(cs) ==
    IF cs = <<>> THEN 0
    ELSE 10 * DigitsValue(SubSeq(cs, 1, Len(cs) - 1)) + DigitValue(cs[Len(cs)])

\* float(s) where it succeeds
ParseFloat(s) == DigitsValue(Chars(s))

\* What requests.get(...).json() can give: an exception (transport failure,
\* timeout, a body that is no JSON), an empty list, or a list whose first
\* element carries lat and lon texts; a text that float() rejects stands for
\* every malformed field (a missing key raises at the same place).
ErrorResponse == [kind |-> "error", lat |-> "", lon |-> ""]
EmptyResponse == [kind |-> "empty", lat |-> "", lon |-> ""]
Result(a, b) == [kind |-> "result", lat |-> a, lon |-> b]
Responses ==
    {ErrorResponse, EmptyResponse}
        \cup {Result(a, b) : a \in {"25", "48", "abc"}, b \in {"55", "abc"}}

\* an entry of the log
Request(e, loc, q, r) == [ev |-> "request", entry |-> e, loc |-> loc, query |-> q, resp |-> r]
Slept(e, loc) == [ev |-> "sleep", entry |-> e, loc |-> loc, query |-> "", resp |-> EmptyResponse]

Min(a, b) == IF a <= b THEN a ELSE b

\* a cut one row too long
head_one_more(t, n) == SubSeq(t, 1, Min(n + 1, Len(t)))

\* DataFrame.head(n)
head(t, n) == SubSeq(t, 1, Min(n, Len(t)))

\* the two coordinates swapped
append_result_swapped(lats, lons, r) ==
    IF ~IsNumeric(r.lat) \/ ~IsNumeric(r.lon)
    THEN <<Append(lats, None), Append(lons, None)>>
    ELSE <<Append(lats, Some(ParseFloat(r.lon))), Append(lons, Some(ParseFloat(r.lat)))>>

\* lines 147-148 (155-156) inside the try, with the handler of lines 160-162:
\* float(lat) is appended before float(lon) is evaluated, and the handler
\* appends None to both lists whatever was appended already
append_result(lats, lons, r) ==
    IF ~IsNumeric(r.lat)
    THEN <<Append(lats, None), Append(lons, None)>>
    ELSE IF ~IsNumeric(r.lon)
    THEN <<Append(Append(lats, Some(ParseFloat(r.lat))), None), Append(lons, None)>>
    ELSE <<Append(lats, Some(ParseFloat(r.lat))), Append(lons, Some(ParseFloat(r.lon)))>>

\* lines 158-159 and 161-162
append_none(lats, lons) == <<Append(lats, None), Append(lons, None)>>

LocationKeys == {"AE01", "FR02"}

InitGeo ==
    /\ pc = "g_start"
    /\ \E n \in 0..MaxEntries :
          \E names \in [1..n -> LocationKeys] :
             df_locations_raw = [i \in 1..n |-> [Location |-> names[i]]]
    /\ df_loc = df_locations_raw
    /\ max_locations \in 0..(MaxEntries + 1)
    /\ idx = 0
    /\ latitudes = <<>>
    /\ longitudes = <<>>
    /\ log = <<>>
    /\ IdleHeader /\ IdleVolume /\ IdleMap

\* lines 120-127
ApplyCap ==
    /\ pc = "g_start"
    /\ df_loc' = IF max_locations # 0 THEN head(df_loc, max_locations) ELSE df_loc
    /\ latitudes' = <<>>
    /\ longitudes' = <<>>
    /\ pc' = "g_loop"
    /\ UNCHANGED <<df_locations_raw, max_locations, idx, log, hdrVars, volVars, mapVars>>

\* lines 132-149 and 160-162: the primary request of the next row
PrimaryRequest ==
    /\ pc = "g_loop"
    /\ idx < Len(df_loc)
    /\ \E r \in Responses :
          /\ log' = Append(log, Request(idx + 1, df_loc[idx + 1].Location, "primary", r))
          /\ CASE r.kind = "error" ->
                    /\ latitudes' = append_none(latitudes, longitudes)[1]
                    /\ longitudes' = append_none(latitudes, longitudes)[2]
                    /\ pc' = "g_sleep"
               [] r.kind = "result" ->
                    /\ latitudes' = append_result(latitudes, longitudes, r)[1]
                    /\ longitudes' = append_result(latitudes, longitudes, r)[2]
                    /\ pc' = "g_sleep"
               [] r.kind = "empty" ->
                    /\ UNCHANGED <<latitudes, longitudes>>
                    /\ pc' = "g_fallback"
    /\ UNCHANGED <<df_locations_raw, df_loc, max_locations, idx, hdrVars, volVars, mapVars>>

\* lines 150-162: the city + country request after an empty primary result
FallbackRequest ==
    /\ pc = "g_fallback"
    /\ \E r \in Responses :
          /\ log' = Append(log, Request(idx + 1, df_loc[idx + 1].Location, "fallback", r))
          /\ CASE r.kind = "result" ->
                    /\ latitudes' = append_result(latitudes, longitudes, r)[1]
                    /\ longitudes' = append_result(latitudes, longitudes, r)[2]
               [] OTHER ->
                    /\ latitudes' = append_none(latitudes, longitudes)[1]
                    /\ longitudes' = append_none(latitudes, longitudes)[2]
    /\ pc' = "g_sleep"
    /\ UNCHANGED <<df_locations_raw, df_loc, max_locations, idx, hdrVars, volVars, mapVars>>

\* line 164, the end of an iteration
Sleep ==
    /\ pc = "g_sleep"
    /\ log' = Append(log, Slept(idx + 1, df_loc[idx + 1].Location))
    /\ idx' = idx + 1
    /\ pc' = "g_loop"
    /\ UNCHANGED <<df_locations_raw, df_loc, max_locations, latitudes, longitudes,
                   hdrVars, volVars, mapVars>>

\* lines 169-175: the column assignments need lists as long as the table
AssignAndReturn ==
    /\ pc = "g_loop"
    /\ idx = Len(df_loc)
    /\ Len(latitudes) = Len(df_loc)
    /\ Len(longitudes) = Len(df_loc)
    /\ df_locations' = [i \in 1..Len(df_loc) |->
                          [Location |-> df_loc[i].Location,
                           lat |-> latitudes[i], lon |-> longitudes[i]]]
    /\ pc' = "g_returned"
    /\ UNCHANGED <<geoVars, df_map_data, df_map, hdrVars, volVars>>

\* lines 169-170: pandas raises ValueError on a list of another length, and
\* nothing catches it
AssignRaises ==
    /\ pc = "g_loop"
    /\ idx = Len(df_loc)
    /\ (Len(latitudes) # Len(df_loc) \/ Len(longitudes) # Len(df_loc))
    /\ pc' = "g_raised"
    /\ UNCHANGED <<geoVars, mapVars, hdrVars, volVars>>

NextGeo ==
    ApplyCap \/ PrimaryRequest \/ FallbackRequest \/ Sleep \/ AssignAndReturn \/ AssignRaises

SpecGeo == InitGeo /\ [][NextGeo]_vars

(***************************************************************************)
(* Claims about geocode_locations (specification SpecGeo).                 *)
(***************************************************************************)

\* the requests of the log made for row e with query q
RequestsOf(e, q) ==
    {k \in 1..Len(log) :
        log[k].ev = "request" /\ log[k].entry = e /\ log[k].query = q}

\* whether the row's last answer was a failure: an exception, an empty
\* fallback result, or a result whose lat does not parse
FailedLookup(e) ==
    \E k \in 1..Len(log) :
        /\ log[k].ev = "request" /\ log[k].entry = e
        /\ \/ log[k].resp.kind = "error"
           \/ log[k].query = "fallback" /\ log[k].resp.kind = "empty"
           \/ log[k].resp.kind = "result"
                /\ (~IsNumeric(log[k].resp.lat) \/ ~IsNumeric(log[k].resp.lon))

\* C4: no mix of lookup outcomes is fatal: the column assignment never raises,
\* and in the returned table every row whose lookup failed has null lat and lon.
C4_FailuresNeverFatal ==
    /\ pc # "g_raised"
    /\ pc = "g_returned" =>
          \A e \in 1..Len(df_locations) :
              FailedLookup(e) =>
                  df_locations[e].lat = None /\ df_locations[e].lon = None

\* C10: at every iteration boundary both lists are as long as the number of
\* rows processed so far.
C10_ListsInStep ==
    pc = "g_loop" => Len(latitudes) = idx /\ Len(longitudes) = idx

\* C5: a sleep lies between every two consecutive outbound requests.
C5_DelayBetweenRequests ==
    \A k \in 1..(Len(log) - 1) :
        ~(log[k].ev = "request" /\ log[k + 1].ev = "request")

\* the answer to the one request of row e with query q
RespOf(e, q) == log[CHOOSE k \in RequestsOf(e, q) : TRUE].resp

\* row e holds the coordinates of result r
EntryHas(e, r) ==
    /\ IsNumeric(r.lat) /\ IsNumeric(r.lon)
    /\ Len(latitudes) >= e /\ Len(longitudes) >= e
    /\ latitudes[e] = Some(ParseFloat(r.lat))
    /\ longitudes[e] = Some(ParseFloat(r.lon))

ParsedResultStep ==
    /\ Len(log') = Len(log) + 1
    /\ log'[Len(log')].ev = "request"
    /\ log'[Len(log')].resp.kind = "result"
    /\ IsNumeric(log'[Len(log')].resp.lat)
    /\ IsNumeric(log'[Len(log')].resp.lon)

\* the step just taken was a fallback request
FallbackStep ==
    /\ Len(log') = Len(log) + 1
    /\ log'[Len(log')].ev = "request"
    /\ log'[Len(log')].query = "fallback"

Processed ==
    IF max_locations = 0 THEN Len(df_locations_raw)
    ELSE Min(max_locations, Len(df_locations_raw))

\* lookups are made only for the first Processed rows of the loaded table
LookupsWithinCap ==
    \A k \in 1..Len(log) :
        log[k].ev = "request" =>
            /\ log[k].entry \in 1..Processed
            /\ log[k].loc = df_locations_raw[log[k].entry].Location

\* C8 as stated: lookups are made only for the first n rows, and the rows
\* beyond the cap are still rows of the table, with null lat and lon.
C8_CapAsStated ==
    /\ LookupsWithinCap
    /\ pc = "g_returned" =>
          /\ Len(df_locations) = Len(df_locations_raw)
          /\ \A i \in 1..Len(df_locations) :
                i > Processed =>
                    df_locations[i].lat = None /\ df_locations[i].lon = None

\* C8, amended: lookups are made only for the first n rows; once the loop is
\* over every one of them was looked up (all rows when no cap is given); and
\* the returned table holds exactly the first n rows, so a row beyond the cap
\* is not in it and has no coordinates at all.
C8_Cap ==
    /\ LookupsWithinCap
    /\ pc \in {"g_returned", "g_raised"} =>
          \A i \in 1..Processed : RequestsOf(i, "primary") # {}
    /\ pc = "g_returned" =>
          /\ Len(df_locations) = Processed
          /\ \A i \in 1..Processed :
                df_locations[i].Location = df_locations_raw[i].Location

\* C8 witness: a table returned under a cap smaller than the table, after
\* lookups were made.
C8_Witness ==
    /\ pc = "g_returned"
    /\ max_locations # 0
    /\ max_locations < Len(df_locations_raw)
    /\ df_locations_raw[1].Location # df_locations_raw[Len(df_locations_raw)].Location
    /\ RequestsOf(1, "primary") # {}

(***************************************************************************)
(* The join of lines 305-308.                                              *)
(***************************************************************************)

\* the sum of the Volume of the rows of the set S
RECURSIVE SumRows(_)
SumRows(S) ==
    IF S = {} THEN 0
    ELSE LET r == CHOOSE x \in S : TRUE IN r.Volume + SumRows(S \ {r})

\* line 306: groupby(['Location', 'Wh_Role'])['Volume'].sum()
groupby_location_role(data) ==
    {[Location |-> k[1], Wh_Role |-> k[2],
      Volume |-> SumRows({r \in data : r.Location = k[1] /\ r.Wh_Role = k[2]})] :
        k \in {<<r.Location, r.Wh_Role>> : r \in data}}

\* line 307: pd.merge(df_locations, df_map_data, on='Location', how='inner'),
\* one row per pair of a location row and a volume row with the same Location
merge(locations, map_data) ==
    UNION {{[entry |-> i, Location |-> locations[i].Location,
             lat |-> locations[i].lat, lon |-> locations[i].lon,
             Wh_Role |-> m.Wh_Role, Volume |-> m.Volume] :
                m \in {x \in map_data : x.Location = locations[i].Location}} :
           i \in 1..Len(locations)}

\* the dropna left out
dropna_skipped(t) == t

\* line 308: dropna(subset=['lat', 'lon'])
dropna_lat_lon(t) == {r \in t : ~r.lat.null /\ ~r.lon.null}

\* the alphabets of the join's inputs
JoinMarkets == <<"FR", "EMEA Total">>
JoinRoles == <<"LDCs", "RDCs">>
JoinLocations == <<"AE01", "XX99">>
JoinVolumes == <<1, 2>>
NumAggRecords == Len(JoinMarkets) * Len(JoinRoles) * Len(JoinLocations) * Len(JoinVolumes)

\* the i-th aggregated row of the alphabet, 0 <= i < NumAggRecords
AggRecord(i) ==
    LET a == i % Len(JoinVolumes)
        i1 == i \div Len(JoinVolumes)
        b == i1 % Len(JoinLocations)
        i2 == i1 \div Len(JoinLocations)
        c == i2 % Len(JoinRoles)
        d == i2 \div Len(JoinRoles)
    IN  [Market |-> JoinMarkets[d + 1], Wh_Role |-> JoinRoles[c + 1],
         Location |-> JoinLocations[b + 1], Volume |-> JoinVolumes[a + 1]]

\* a geocoded location row: both coordinates set, or both null
GeocodedEntries ==
    {[Location |-> l, lat |-> c[1], lon |-> c[2]] :
        l \in {"AE01", "AE01 "}, c \in {<<None, None>>, <<Some(25), Some(55)>>}}

\* the inputs are what the two functions can return: an aggregated table with
\* one row per (Market, Wh_Role, Location), and a geocoded location table
InitJoin ==
    /\ pc = "j_start"
    /\ \E n \in 0..MaxAggRows :
          \E g \in [1..n -> 0..(NumAggRecords - 1)] :
             /\ \A i \in 1..(n - 1) :
                   g[i] \div Len(JoinVolumes) < g[i + 1] \div Len(JoinVolumes)
             /\ df_data = {AggRecord(g[i]) : i \in 1..n}
    /\ \E n \in 0..MaxEntries : df_locations \in [1..n -> GeocodedEntries]
    /\ df_map_data = {}
    /\ df_map = {}
    /\ df_pivot = <<>> /\ df_long = <<>>
    /\ IdleHeader /\ IdleGeo

\* line 306
GroupForMap ==
    /\ pc = "j_start"
    /\ df_map_data' = groupby_location_role(df_data)
    /\ pc' = "j_grouped"
    /\ UNCHANGED <<df_locations, df_map, volVars, hdrVars, geoVars>>

\* line 307
Merge ==
    /\ pc = "j_grouped"
    /\ df_map' = merge(df_locations, df_map_data)
    /\ pc' = "j_merged"
    /\ UNCHANGED <<df_locations, df_map_data, volVars, hdrVars, geoVars>>

\* line 308
DropNa ==
    /\ pc = "j_merged"
    /\ df_map' = dropna_lat_lon(df_map)
    /\ pc' = "j_done"
    /\ UNCHANGED <<df_locations, df_map_data, volVars, hdrVars, geoVars>>

NextJoin == GroupForMap \/ Merge \/ DropNa

SpecJoin == InitJoin /\ [][NextJoin]_vars

\* the location rows whose Location is exactly l
EntriesAt(l) == {i \in 1..Len(df_locations) : df_locations[i].Location = l}

\* the points of the map-ready table for Location l and role r
PointsAt(l, r) == {p \in df_map : p.Location = l /\ p.Wh_Role = r}

\* C7: every row of the map-ready table has non-null lat and lon, the Location
\* of a location row whose coordinates it carries and of an aggregated row with
\* its role; an aggregated row with no location row, or only rows with null
\* coordinates, gives no point; one with exactly one location row, geocoded,
\* gives exactly one point, with that row's coordinates.
C7_JoinOnLocation ==
    pc = "j_done" =>
        /\ \A p \in df_map :
              /\ ~p.lat.null /\ ~p.lon.null
              /\ p.entry \in EntriesAt(p.Location)
              /\ p.lat = df_locations[p.entry].lat
              /\ p.lon = df_locations[p.entry].lon
              /\ \E a \in df_data : a.Location = p.Location /\ a.Wh_Role = p.Wh_Role
        /\ \A a \in df_data :
              /\ (\A i \in EntriesAt(a.Location) :
                     df_locations[i].lat.null \/ df_locations[i].lon.null)
                    => PointsAt(a.Location, a.Wh_Role) = {}
              /\ (Cardinality(EntriesAt(a.Location)) = 1
                    /\ \A i \in EntriesAt(a.Location) :
                          ~df_locations[i].lat.null /\ ~df_locations[i].lon.null)
                    => /\ Cardinality(PointsAt(a.Location, a.Wh_Role)) = 1
                       /\ \A p \in PointsAt(a.Location, a.Wh_Role) :
                             \A i \in EntriesAt(a.Location) :
                                p.lat = df_locations[i].lat /\ p.lon = df_locations[i].lon

\* C7 witness: "AE01" has one geocoded location row and gives one point at
\* (25, 55), while "XX99" has no location row, the row "AE01 " matches nothing
\* and neither gives a point.
C7_Witness ==
    /\ pc = "j_done"
    /\ \E a, b \in df_data :
          /\ a.Location = "AE01" /\ b.Location = "XX99"
          /\ Cardinality(EntriesAt("AE01")) = 1
          /\ Cardinality(PointsAt("AE01", a.Wh_Role)) = 1
          /\ \A p \in PointsAt("AE01", a.Wh_Role) : p.lat = Some(25) /\ p.lon = Some(55)
          /\ PointsAt("XX99", b.Wh_Role) = {}
    /\ \E i \in 1..Len(df_locations) : df_locations[i].Location = "AE01 "

====
